---- MODULE Spec2Model ----
(***************************************************************************)
(* The Fireworks particle pool (src/unnamed/part_000).                     *)
(*                                                                         *)
(* Numbers are fixed point.  Time (ages, lifetimes, delta) is in ticks of  *)
(* 0.1 s.  Lengths (origins, positions) are in 1/50 of a scene unit and    *)
(* velocities in 1/5 of a unit per second, so that velocity * age is a     *)
(* length and 0.5 * GRAVITY * age * age is (GRAVITY * age * age) / 4       *)
(* lengths, exactly.  Colour channels and the opacity are in hundredths.   *)
(* Float32 rounding of the stored arrays is not modelled.                  *)
(***************************************************************************)
EXTENDS Integers, FiniteSets, Sequences, TLC

\* ---------------------------------------------------------------- bounds
\* particles in the pool (the source sizes it to 100 * 10)
TOTAL_PARTICLES == 2
\* frame times offered to useFrame are 0, 5, .. 5 * MaxDeltaSteps ticks
MaxDeltaSteps == 2
\* number of frames with a negative frame time a behaviour of SpecBadDelta has
MaxBadFrames == 1

\* ------------------------------------------------------------- constants
GRAVITY == -4

Indices == 0 .. (TOTAL_PARTICLES - 1)

Vec(a, b, c) == [x |-> a, y |-> b, z |-> c]
ZeroVec == Vec(0, 0, 0)
AddVec(u, v) == Vec(u.x + v.x, u.y + v.y, u.z + v.z)

\* the default value of the origin prop, [0, 5, -14]
baseOrigin == Vec(0 * 50, 5 * 50, (-14) * 50)

\* baseOrigin.y - 1.5
FloorThreshold == baseOrigin.y - 75

Max(a, b) == IF a >= b THEN a ELSE b

\* Math.exp(k / 20) in thousandths, k an integer, by squaring from
\* e^(-1/20) = 0.951.. and e^(1/20) = 1.051.., each product rounded down
RECURSIVE ExpTwentieths(_)
ExpTwentieths(k) ==
    IF k = 0 THEN 1000
    ELSE IF k % 2 = 0
    THEN (ExpTwentieths(k \div 2) * ExpTwentieths(k \div 2)) \div 1000
    ELSE IF k < 0 THEN (ExpTwentieths(k + 1) * 951) \div 1000
    ELSE (ExpTwentieths(k - 1) * 1052) \div 1000

\* MathUtils.lerp(x, y, t) = (1 - t) * x + t * y, t in thousandths
lerp(x, y, t) == ((1000 - t) * x + t * y) \div 1000

\* damp with the first-order factor lambda * dt in place of 1 - exp(-lambda * dt)
damp_Linear(x, y, lambda, dt) == lerp(x, y, 50 * lambda * dt)

\* MathUtils.damp(x, y, lambda, dt) = lerp(x, y, 1 - Math.exp(-lambda * dt));
\* lambda in halves per second (2.5 is 5, 5 is 10) and dt in ticks make
\* lambda * dt twentieths
damp(x, y, lambda, dt) == lerp(x, y, 1000 - ExpTwentieths(-(lambda * dt)))

\* ------------------------------------------------------------------ state
VARIABLES
    data,         \* dataRef.current: the seven parallel arrays
    opacity,      \* material.opacity
    initialized,  \* the mount effect has run
    recycled,     \* history: the indices resetParticle was called on by the last frame
    expired,      \* history: those of them whose age had passed their lifetime
    elapsed,      \* history: frame time added to each particle since its last reset
    lastCall,     \* history: "none", or the last frame was "active" or "inactive"
    badFrames     \* history: frames with a negative frame time so far

vars == <<data, opacity, initialized, recycled, expired, elapsed, lastCall, badFrames>>

\* ------------------------------------------------------------ random draws
\* One outcome of the Math.random() calls of a resetParticle call:
\*   offset   the vector added to baseOrigin, x and z in [-500, 500), y in [0, 200)
\*   velocity the spray velocity
\*   color    randomColor()
\*   life     Math.random() * 1.3 in ticks, in [0, 13)
\*   delay    Math.random() * 1.2 in ticks, in [0, 12)
Draw(o, v, c, l, d) == [offset |-> o, velocity |-> v, color |-> c, life |-> l, delay |-> d]

\* starts at the anchor height, level flight, no delay, the longest lifetime:
\* falls through the floor
DrawLow == Draw(Vec(0, 0, 0), Vec(5, 0, 0), Vec(86, 34, 34), 12, 0)
\* starts high and rises, a long delay, a lifetime the frame times divide
DrawHigh == Draw(Vec(5000, 5000, -10000), Vec(0, 10, 5), Vec(34, 86, 34), 9, 10)
\* starts just above the anchor, thrown downwards, the shortest lifetime
DrawFall == Draw(Vec(-2500, 50, 0), Vec(-7, -10, 0), Vec(34, 34, 86), 0, 5)

Draws == {DrawLow, DrawHigh, DrawFall}

\* frame times (delta), in ticks
Deltas == {5 * k : k \in 0 .. MaxDeltaSteps}
BadDeltas == {-5}
\* the frame time of SpecSteady, in ticks
SteadyDelta == 5
\* the frame time of a frame that follows a stall of the render loop, in ticks
LongDeltas == {30}

\* ------------------------------------------------------------- operations
\* new Float32Array(..) for each of the seven arrays
emptyData ==
    [positions  |-> [i \in Indices |-> ZeroVec],
     velocities |-> [i \in Indices |-> ZeroVec],
     origins    |-> [i \in Indices |-> ZeroVec],
     baseColors |-> [i \in Indices |-> ZeroVec],
     colors     |-> [i \in Indices |-> ZeroVec],
     ages       |-> [i \in Indices |-> 0],
     lifetimes  |-> [i \in Indices |-> 0]]

\* resetParticle without the three colors[..] = 0 assignments
resetParticle_KeepColor(d, index, draw) ==
    LET burstOrigin == AddVec(baseOrigin, draw.offset)
    IN  [origins    |-> [d.origins EXCEPT ![index] = burstOrigin],
         velocities |-> [d.velocities EXCEPT ![index] = draw.velocity],
         baseColors |-> [d.baseColors EXCEPT ![index] = draw.color],
         colors     |-> d.colors,
         positions  |-> [d.positions EXCEPT ![index] = burstOrigin],
         lifetimes  |-> [d.lifetimes EXCEPT ![index] = 16 + draw.life],
         ages       |-> [d.ages EXCEPT ![index] = -draw.delay]]

\* resetParticle with the sign of the delay lost: ages[index] = Math.random() * 1.2
resetParticle_PositiveDelay(d, index, draw) ==
    LET burstOrigin == AddVec(baseOrigin, draw.offset)
    IN  [origins    |-> [d.origins EXCEPT ![index] = burstOrigin],
         velocities |-> [d.velocities EXCEPT ![index] = draw.velocity],
         baseColors |-> [d.baseColors EXCEPT ![index] = draw.color],
         colors     |-> [d.colors EXCEPT ![index] = ZeroVec],
         positions  |-> [d.positions EXCEPT ![index] = burstOrigin],
         lifetimes  |-> [d.lifetimes EXCEPT ![index] = 16 + draw.life],
         ages       |-> [d.ages EXCEPT ![index] = draw.delay]]

resetParticle(d, index, draw) ==
    LET burstOrigin == AddVec(baseOrigin, draw.offset)
    IN  [origins    |-> [d.origins EXCEPT ![index] = burstOrigin],
         velocities |-> [d.velocities EXCEPT ![index] = draw.velocity],
         baseColors |-> [d.baseColors EXCEPT ![index] = draw.color],
         colors     |-> [d.colors EXCEPT ![index] = ZeroVec],
         positions  |-> [d.positions EXCEPT ![index] = burstOrigin],
         lifetimes  |-> [d.lifetimes EXCEPT ![index] = 16 + draw.life],
         ages       |-> [d.ages EXCEPT ![index] = -draw.delay]]

\* the mount effect: resetParticle(i) for i = 0 .. TOTAL_PARTICLES - 1
RECURSIVE resetFrom(_, _, _)
resetFrom(d, i, draws) ==
    IF i >= TOTAL_PARTICLES THEN d
    ELSE resetFrom(resetParticle(d, i, draws[i]), i + 1, draws)

\* the increment skipped while the particle waits for its ignition
addDelta_Paused(d, i, delta) ==
    IF d.ages[i] < 0 THEN d ELSE [d EXCEPT !.ages[i] = @ + delta]

\* ages[i] += delta
addDelta(d, i, delta) == [d EXCEPT !.ages[i] = @ + delta]

\* the test without its floor disjunct
mustRecycle_AgeOnly(d, i) == d.ages[i] > d.lifetimes[i]

\* the test without its age disjunct
mustRecycle_FloorOnly(d, i) == d.positions[i].y < FloorThreshold

\* the age test half a second late
mustRecycle_Late(d, i) ==
    d.ages[i] > d.lifetimes[i] + 5 \/ d.positions[i].y < FloorThreshold

\* the test that sends a particle to resetParticle
mustRecycle(d, i) ==
    d.ages[i] > d.lifetimes[i] \/ d.positions[i].y < FloorThreshold

\* the position with GRAVITY * age * age, the 0.5 forgotten
kinematic_NoHalf(origin, velocity, age) ==
    Vec(origin.x + velocity.x * age,
        origin.y + velocity.y * age + (GRAVITY * age * age) \div 2,
        origin.z + velocity.z * age)

\* the position of a live particle
kinematic(origin, velocity, age) ==
    Vec(origin.x + velocity.x * age,
        origin.y + velocity.y * age + (GRAVITY * age * age) \div 4,
        origin.z + velocity.z * age)

\* Math.max(0, 1 - age / lifetime), in thousandths
fadeOf(age, lifetime) == Max(0, 1000 - (1000 * age) \div lifetime)

scaleColor(c, fade) ==
    Vec((c.x * fade) \div 1000, (c.y * fade) \div 1000, (c.z * fade) \div 1000)

\* the iteration without the continue after resetParticle(i)
updateParticle_FallThrough(d0, i, delta, draws) ==
    LET d == addDelta(d0, i, delta)
        e == IF d.ages[i] >= 0 /\ mustRecycle(d, i)
             THEN resetParticle(d, i, draws[i]) ELSE d
    IN  IF d.ages[i] < 0
        THEN [d EXCEPT !.positions[i] = d.origins[i], !.colors[i] = ZeroVec]
        ELSE [e EXCEPT
                !.positions[i] = kinematic(e.origins[i], e.velocities[i], e.ages[i]),
                !.colors[i] = scaleColor(e.baseColors[i], fadeOf(e.ages[i], e.lifetimes[i]))]

\* one iteration of the loop of useFrame
updateParticle(d0, i, delta, draws) ==
    LET d == addDelta(d0, i, delta)
    IN  IF d.ages[i] < 0
        THEN [d EXCEPT !.positions[i] = d.origins[i], !.colors[i] = ZeroVec]
        ELSE IF mustRecycle(d, i)
        THEN resetParticle(d, i, draws[i])
        ELSE [d EXCEPT
                !.positions[i] = kinematic(d.origins[i], d.velocities[i], d.ages[i]),
                !.colors[i] = scaleColor(d.baseColors[i], fadeOf(d.ages[i], d.lifetimes[i]))]

RECURSIVE updateFrom(_, _, _, _)
updateFrom(d, i, delta, draws) ==
    IF i >= TOTAL_PARTICLES THEN d
    ELSE updateFrom(updateParticle(d, i, delta, draws), i + 1, delta, draws)

\* the indices the loop of useFrame calls resetParticle on
resetsOf(d, delta) ==
    {i \in Indices : LET e == addDelta(d, i, delta)
                     IN  e.ages[i] >= 0 /\ mustRecycle(e, i)}

Init ==
    /\ data = emptyData
    /\ opacity = 0
    /\ initialized = FALSE
    /\ recycled = {}
    /\ expired = {}
    /\ elapsed = [i \in Indices |-> 0]
    /\ lastCall = "none"
    /\ badFrames = 0

\* useEffect(() => { for (..) resetParticle(i) }, [])
Initialize ==
    /\ ~initialized
    /\ \E draws \in [Indices -> Draws] : data' = resetFrom(data, 0, draws)
    /\ initialized' = TRUE
    /\ UNCHANGED <<opacity, recycled, expired, elapsed, lastCall, badFrames>>

\* the inactive branch without its return
InactiveFrame_NoReturn(delta) ==
    /\ opacity' = damp(opacity, 0, 10, delta)
    /\ \E draws \in [resetsOf(data, delta) -> Draws] :
           data' = updateFrom(data, 0, delta, draws)
    /\ recycled' = resetsOf(data, delta)
    /\ expired' = {i \in resetsOf(data, delta) : data.ages[i] + delta > data.lifetimes[i]}
    /\ elapsed' = [i \in Indices |->
                    IF i \in resetsOf(data, delta) THEN 0 ELSE elapsed[i] + delta]

\* useFrame with isActive false
InactiveFrame(delta) ==
    /\ opacity' = damp(opacity, 0, 10, delta)
    /\ recycled' = {}
    /\ expired' = {}
    /\ UNCHANGED <<data, elapsed>>

\* useFrame with isActive true
ActiveFrame(delta) ==
    /\ opacity' = damp(opacity, 85, 5, delta)
    /\ \E draws \in [resetsOf(data, delta) -> Draws] :
           data' = updateFrom(data, 0, delta, draws)
    /\ recycled' = resetsOf(data, delta)
    /\ expired' = {i \in resetsOf(data, delta) : data.ages[i] + delta > data.lifetimes[i]}
    /\ elapsed' = [i \in Indices |->
                    IF i \in resetsOf(data, delta) THEN 0 ELSE elapsed[i] + delta]

\* the frame callback; frames are delivered to a mounted component, whose
\* refs are set and whose mount effect has run
useFrame(delta, isActive) ==
    /\ initialized
    /\ IF isActive THEN ActiveFrame(delta) ELSE InactiveFrame(delta)
    /\ lastCall' = IF isActive THEN "active" ELSE "inactive"
    /\ UNCHANGED initialized

Frame ==
    \E delta \in Deltas, isActive \in BOOLEAN :
        useFrame(delta, isActive) /\ UNCHANGED badFrames

\* a frame whose measured frame time is negative
BadFrame ==
    /\ badFrames < MaxBadFrames
    /\ \E delta \in BadDeltas, isActive \in BOOLEAN : useFrame(delta, isActive)
    /\ badFrames' = badFrames + 1

\* one of a run of active frames of one fixed positive frame time
SteadyFrame == useFrame(SteadyDelta, TRUE) /\ UNCHANGED badFrames

Next == Initialize \/ Frame
Spec == Init /\ [][Next]_vars

\* frames with a good frame time, then the bad frames
NextBadDelta == Initialize \/ (badFrames = 0 /\ Frame) \/ BadFrame
SpecBadDelta == Init /\ [][NextBadDelta]_vars

NextSteady == Initialize \/ SteadyFrame
SpecSteady == Init /\ [][NextSteady]_vars

\* a frame whose frame time is longer than any delay plus any lifetime
LongFrame ==
    \E delta \in LongDeltas, isActive \in BOOLEAN :
        useFrame(delta, isActive) /\ UNCHANGED badFrames

\* a frame of an ordinary frame time while the fireworks are on
RunningFrame ==
    \E delta \in Deltas : useFrame(delta, TRUE) /\ UNCHANGED badFrames

\* the fireworks stay on between the long frames
NextLongFrame == Initialize \/ RunningFrame \/ LongFrame
SpecLongFrame == Init /\ [][NextLongFrame]_vars

TypeOK ==
    /\ opacity \in Int
    /\ initialized \in BOOLEAN
    /\ recycled \subseteq Indices
    /\ expired \subseteq recycled
    /\ lastCall \in {"none", "active", "inactive"}
    /\ badFrames \in 0 .. MaxBadFrames

\* ------------------------------------------------------------------ claims
\* a particle in flight: ignited and not past its lifetime
Live(i) == data.ages[i] >= 0 /\ data.ages[i] <= data.lifetimes[i]

\* C1 (as stated): a live particle whose position integrated by an active
\* frame is below anchor.y - 1.5 has been recycled by that same frame.
C1_RecycledInSameFrame ==
    \A i \in Indices :
        (lastCall = "active" /\ Live(i) /\ data.positions[i].y < FloorThreshold)
            => i \in recycled

\* C1 (amended): an active frame recycles exactly the particles whose
\* incremented age is past their lifetime or whose position stored by the
\* previous pass is below the floor; so a particle whose position a frame
\* integrates below the floor keeps it through that frame and is recycled by
\* the next active frame, which leaves it at a new origin above the floor.
C1_RecycledInNextFrame ==
    [][lastCall' = "active" =>
          \A i \in Indices :
              /\ data.positions[i].y < FloorThreshold =>
                    /\ i \in recycled'
                    /\ data'.positions[i] = data'.origins[i]
                    /\ data'.positions[i].y >= FloorThreshold
                    /\ data'.ages[i] <= 0
              /\ i \in recycled' =>
                    (i \in expired' \/ data.positions[i].y < FloorThreshold)
              /\ i \notin recycled' =>
                    /\ data'.origins[i] = data.origins[i]
                    /\ data'.lifetimes[i] = data.lifetimes[i]
                    /\ data'.ages[i] <= data.lifetimes[i]]_vars

\* a live particle that an active frame has just put below the floor and left
\* in the pool
C1_Witness ==
    /\ lastCall = "active"
    /\ \E i \in Indices :
          Live(i) /\ data.positions[i].y < FloorThreshold /\ i \notin recycled

\* C2: a frame with isActive false leaves all seven arrays as they were, and
\* the opacity does not grow and stays at or above 0.
C2_InactiveFrameIsNoOp ==
    [][lastCall' = "inactive" =>
          /\ data' = data
          /\ opacity' <= opacity
          /\ opacity' >= 0]_vars

\* an inactive frame has run on a visible pool with a particle in flight
C2_Witness ==
    /\ lastCall = "inactive"
    /\ opacity > 0
    /\ \E i \in Indices : data.ages[i] > 0 /\ data.positions[i] # data.origins[i]

\* C3: after the mount effect, a particle with age < 0 is black and sits at its
\* origin.
C3_PreIgnition ==
    initialized =>
        \A i \in Indices :
            data.ages[i] < 0 =>
                /\ data.colors[i] = ZeroVec
                /\ data.positions[i] = data.origins[i]

\* a frame has recycled a particle into its delay while another one waits,
\* partly through its delay
C3_Witness ==
    /\ lastCall = "active"
    /\ \E i \in recycled : data.ages[i] < 0
    /\ \E i \in Indices : data.ages[i] < 0 /\ elapsed[i] > 0

\* C4: the opacity stays within [0, 0.85]; an active frame moves it towards
\* 0.85 and not past it, an inactive frame towards 0 and not past it.
C4_VisibilityBound ==
    /\ [](opacity >= 0 /\ opacity <= 85)
    /\ [][/\ lastCall' = "active" => (opacity <= opacity' /\ opacity' <= 85)
          /\ lastCall' = "inactive" => (opacity >= opacity' /\ opacity' >= 0)]_vars

\* the opacity has come close to its target and the pool was switched off
C4_Witness == lastCall = "inactive" /\ opacity > 0 /\ opacity < 85 /\ elapsed # [i \in Indices |-> 0]

\* C5 (as stated): a frame with a negative frame time behaves as one with
\* frame time 0: no age goes back, the opacity does not move away from its
\* target and stays within [0, 0.85].
C5_NegativeDeltaIsZero ==
    [][badFrames' > badFrames =>
          /\ \E isActive \in BOOLEAN : useFrame(0, isActive)
          /\ \A i \in Indices : i \in recycled' \/ data'.ages[i] >= data.ages[i]
          /\ opacity' >= 0 /\ opacity' <= 85
          /\ lastCall' = "active" => opacity' >= opacity
          /\ lastCall' = "inactive" => opacity' <= opacity]_vars

\* C6: after the mount effect and after every frame, no particle is older than
\* its lifetime.
C6_AgeBound ==
    initialized => \A i \in Indices : data.ages[i] <= data.lifetimes[i]

\* a frame found a particle past its lifetime and recycled it, while another
\* particle is exactly as old as its lifetime and still in flight
C6_Witness ==
    /\ expired # {}
    /\ \E i \in Indices : i \notin recycled /\ data.ages[i] = data.lifetimes[i]

\* the state resetParticle leaves particle i of pool d in; minAge is the
\* smallest and maxAge the largest age it may have drawn
FreshlyReset(d, i, minAge, maxAge) ==
    /\ d.ages[i] >= minAge /\ d.ages[i] <= maxAge
    /\ d.lifetimes[i] >= 16 /\ d.lifetimes[i] < 29
    /\ d.origins[i].x - baseOrigin.x \in -25000 .. 24999
    /\ d.origins[i].y - baseOrigin.y \in 0 .. 9999
    /\ d.origins[i].z - baseOrigin.z \in -25000 .. 24999
    /\ d.positions[i] = d.origins[i]
    /\ d.colors[i] = ZeroVec
    /\ \E draw \in Draws :
          /\ d.origins[i] = AddVec(baseOrigin, draw.offset)
          /\ d.velocities[i] = draw.velocity
          /\ d.baseColors[i] = draw.color
          /\ d.lifetimes[i] = 16 + draw.life
          /\ d.ages[i] = -draw.delay

C8_RecycledWithinBound ==
    initialized => \A i \in Indices : elapsed[i] < 12 + 29

\* a steady run in which one particle has just been recycled and another has
\* flown for over three seconds since its reset
C8_Witness ==
    /\ lastCall = "active"
    /\ recycled # {}
    /\ \E i \in Indices : elapsed[i] > 30

\* C9: an active frame adds its frame time to the age of every particle: there
\* is one frame time d, the one the frame has added to the elapsed time of the
\* particles it left in the pool, such that every particle the frame does not
\* recycle ends d older, and every particle it recycles is one that d has
\* ignited and taken past its lifetime, or whose stored position is below the
\* floor.
C9_AgeAdvancesByDelta ==
    [][lastCall' = "active" =>
          \E d \in Deltas :
              \A i \in Indices :
                  IF i \in recycled'
                  THEN /\ data.ages[i] + d >= 0
                       /\ \/ data.ages[i] + d > data.lifetimes[i]
                          \/ data.positions[i].y < FloorThreshold
                  ELSE /\ elapsed'[i] = elapsed[i] + d
                       /\ data'.ages[i] = data.ages[i] + d]_vars

\* an active frame has aged a delayed particle and a particle in flight alike
C9_Witness ==
    /\ lastCall = "active"
    /\ recycled = {}
    /\ \E i, j \in Indices :
          /\ data.ages[i] < 0 /\ elapsed[i] > 0
          /\ data.ages[j] > 0 /\ elapsed[j] > 0

\* C10: the position of an ignited particle is origin + velocity * age, with
\* 0.5 * GRAVITY * age^2 = -2 * age^2 added to y (age * age fiftieths for an
\* age in ticks), whatever frames the age was built from; from origin
\* (0, 10, 0) with velocity (0, 2, 0) the position at age 1 is (0, 10, 0).
C10_ClosedFormPosition ==
    /\ kinematic(Vec(0, 500, 0), Vec(0, 10, 0), 10) = Vec(0, 500, 0)
    /\ initialized =>
          \A i \in Indices :
              data.ages[i] >= 0 =>
                  LET age == data.ages[i]
                      o == data.origins[i]
                      v == data.velocities[i]
                  IN  /\ data.positions[i].x = o.x + v.x * age
                      /\ data.positions[i].y = o.y + v.y * age - age * age
                      /\ data.positions[i].z = o.z + v.z * age

\* a rising particle one second into its flight is back at the height of its
\* origin and has moved sideways
C10_Witness ==
    /\ lastCall = "active"
    /\ \E i \in Indices :
          /\ i \notin recycled
          /\ data.ages[i] = 10
          /\ data.velocities[i].y = 10
          /\ data.positions[i].y = data.origins[i].y
          /\ data.positions[i] # data.origins[i]

\* C11 (as stated): between frames a particle only moves delayed -> live ->
\* recycle -> delayed: it leaves the delayed phase only by an active frame
\* that ages it to 0 or more without resetting it, it enters the delayed phase
\* only through a reset, and a reset takes a live particle and leaves it
\* delayed.
C11_StrictLifecycle ==
    [][initialized =>
          \A i \in Indices :
              /\ (data.ages[i] < 0 /\ data'.ages[i] >= 0) =>
                    (lastCall' = "active" /\ i \notin recycled')
              /\ (data.ages[i] >= 0 /\ data'.ages[i] < 0) => i \in recycled'
              /\ i \in recycled' => (data.ages[i] >= 0 /\ data'.ages[i] < 0)]_vars

\* C11 (amended): a particle leaves the delayed phase only in an active frame,
\* aged to 0 or more or, by a frame time that takes it past its lifetime, reset;
\* it enters the delayed phase only through a reset; a reset leaves it delayed
\* or, when the delay drawn is 0, live at age 0; a reset takes a particle that
\* was ignited before the frame or that the frame has aged past its lifetime,
\* never one whose incremented age is below 0; and a particle that is not
\* reset does not get younger.
C11_Lifecycle ==
    [][initialized =>
          \A i \in Indices :
              /\ (data.ages[i] < 0 /\ data'.ages[i] >= 0) =>
                    (lastCall' = "active" /\ (i \notin recycled' \/ i \in expired'))
              /\ (data.ages[i] >= 0 /\ data'.ages[i] < 0) => i \in recycled'
              /\ i \in recycled' =>
                    /\ data'.ages[i] <= 0
                    /\ data'.ages[i] > -12
                    /\ (data.ages[i] >= 0 \/ i \in expired')
              /\ i \notin recycled' =>
                    /\ data'.ages[i] >= data.ages[i]
                    /\ data'.ages[i] <= data.lifetimes[i]]_vars

\* a frame has recycled one particle into its delay while another, which has
\* waited through its delay, is in flight
C11_Witness ==
    /\ lastCall = "active"
    /\ \E i \in recycled : data.ages[i] < 0
    /\ \E j \in Indices :
          /\ j \notin recycled
          /\ data.ages[j] > 0
          /\ elapsed[j] > data.ages[j]

====
